---- MODULE Spec2Model ----
(***************************************************************************)
(* bitwarden-secrets-sync: one run of the reconciliation script            *)
(* (src/index.js: the script, lines 1-200, and its util module, lines      *)
(* 202-314).  The state is the local directory, the items of the remote    *)
(* folder, the script's own variables and the position of the script; the  *)
(* operator's answers and the outcome of every `bw` invocation are inputs. *)
(* Spec is one run; SpecAgain starts the script again when a run has       *)
(* ended; SpecOutside lets the directory change while a prompt waits.      *)
(***************************************************************************)
EXTENDS Integers, Sequences, FiniteSets, TLC

\* ------------------------------------------------------------------ bounds
\* Items in the remote folder when the run starts.
MaxItems == 2
\* Runs of the script, one after the other, in the specification that runs
\* it again.
MaxRuns == 2

\* ------------------------------------------------------------------ universe
\* Directory entries and item names the model speaks of.  "k.tmp" is the one
\* name the configured ignore pattern matches.
Names == {"a", "b", "k.tmp"}
\* File contents: two are enough to be equal or to differ.
Data == {1, 2}

BW_FOLDER_NAME == "bwss"
ignorePatterns == {"*.tmp"}

\* minimatch(f, p): glob match of the file name f against pattern p.
minimatch(f, p) ==
  \/ p = f
  \/ p = "*.tmp" /\ f \in {"k.tmp"}

\* ------------------------------------------------------------------ codec
\* zlib.brotliCompressSync: a blob that is not the content itself.
compress(raw) == [enc |-> "br", of |-> raw]
\* A payload that no compress() call produced.
Garbage == [enc |-> "raw", of |-> 0]
\* zlib.brotliDecompressSync throws on input that is no brotli stream.
Decompressible(compressed) == compressed.enc = "br"
decompress(compressed) == compressed.of
\* Buffer#toString("base64") / Buffer.from(s, "base64")
toBase64(buf) == [b64 |-> buf]
fromBase64(s) == s.b64
\* sha512 hex digest: equal exactly for equal contents.
hash(bytes) == [sha512 |-> bytes]
\* jsonb64(obj): base64 of the JSON text of obj; the store decodes it.
jsonb64(obj) == [b64json |-> obj]
unJsonb64(s) == s.b64json

\* ------------------------------------------------------------------ time
\* revisionDate is the ISO text of an instant, here in milliseconds.
\* luxon.DateTime.fromISO(revisionDate)
fromISO(text) == text.iso
\* upTs.toFormat("yyyyMMddHHmm.ss") drops the milliseconds; touch -t sets
\* the modification time to that second.
touchFormat(upTs) == (upTs \div 1000) * 1000
\* revisionDate the store gives item id when the folder is first listed.
RevOf(id) == [iso |-> 500 * id]
\* revisionDate the store assigns on an edit or a create during the run.
StoreNow == [iso |-> 9500]
\* mtime of the files that are in the directory when the run starts.
OldMtime == 7000
\* The clock of the machine while the run writes a file.
WriteNow == 9900

\* ------------------------------------------------------------------ state
VARIABLES
  pc,             \* position of the script
  exitCode,       \* -1 while running, else the process exit code
  env,            \* process.env.BW_SESSION ("" when unset)
  bwSession,      \* the session token of the util module
  bwFolderId,     \* the id of the folder the script works in
  folders,        \* remote: the folders of the vault, [id, name]
  remote,         \* remote: the items of the folder, in listing order
  nextId,         \* remote: the id the store gives the next created item
  fsys,           \* local directory: name -> entry
  isRoot,         \* the process may write files whatever their mode
  localRemaining, \* the script's Set of local names not yet matched
  localEmpty,     \* the script's fresh-client flag
  items,          \* the script's listing of the folder
  idx,            \* index of the item the remote loop is at
  cur,            \* the locals of the iteration that waits at a prompt
  log,            \* what the run did so far, in order
  start,          \* the local directory and the folder as the run found them
  run,            \* the number of the run
  prev            \* ids of the items the run before skipped as equal and left so

vars == <<pc, exitCode, env, bwSession, bwFolderId, folders, remote, nextId, fsys, isRoot,
          localRemaining, localEmpty, items, idx, cur, log, start, run, prev>>

\* ------------------------------------------------------------------ local directory
NoEntry == [kind |-> "none", data |-> 0, mtime |-> 0, w |-> FALSE]
\* A directory, symlink or any other entry that is not a regular file.
NotFile == [kind |-> "other", data |-> 0, mtime |-> OldMtime, w |-> FALSE]
File(d, t, w) == [kind |-> "file", data |-> d, mtime |-> t, w |-> w]

\* fs.lstatSync(name, {throwIfNoEntry: false}): undefined for no entry.
lstatSync(dir, name) == dir[name]
Exists(st) == st.kind # "none"
\* A test that takes every entry for a regular file.
isFile_Any(st) == TRUE
\* Stats#isFile()
isFile(st) == st.kind = "file"

\* The candidate filter of the directory listing.
Candidates(dir) ==
  { f \in DOMAIN dir :
      /\ Exists(dir[f])
      /\ isFile(lstatSync(dir, f))
      /\ f # ".bwss"
      /\ ~ \E p \in ignorePatterns : minimatch(f, p) }


\* fs.readdirSync("."): the entries of the directory, in directory order.
DirOrder == <<".bwss", "a", "b", "k.tmp">>
readdirSync(dir) ==
  SelectSeq(DirOrder, LAMBDA f : f \in DOMAIN dir /\ Exists(dir[f]))

\* new Set(readdirSync(".").filter(...)): a Set keeps insertion order.
ListLocal(dir) == SelectSeq(readdirSync(dir), LAMBDA f : f \in Candidates(dir))
\* A delete that leaves the Set as it is.
SetDelete_Keeps(set, name) == set
\* Set#delete(name)
SetDelete(set, name) == SelectSeq(set, LAMBDA f : f # name)
SetOf(seq) == { seq[k] : k \in 1 .. Len(seq) }

\* The process may open path for writing: it is absent, or its mode has the
\* owner write bit, or the process is root.
MayWrite(dir, name, root) == ~ Exists(dir[name]) \/ dir[name].w \/ root
\* fs.writeFileSync(name, upData, {mode: 0o400}): the file holds upData and
\* was modified now; the mode is applied only when the file is created.
writeFileSync(dir, name, upData) ==
  [dir EXCEPT ![name] =
     File(upData, WriteNow, IF Exists(dir[name]) THEN dir[name].w ELSE FALSE)]
\* touch -t <upTs.toFormat("yyyyMMddHHmm.ss")> name: the modification time
\* is set, the content stays.
touch(dir, name, upTs) ==
  [dir EXCEPT ![name].mtime = touchFormat(upTs)]
\* fs.unlinkSync(name)
unlinkSync(dir, name) == [dir EXCEPT ![name] = NoEntry]

\* ------------------------------------------------------------------ remote store
\* What the bw binary does with the script's calls.
Item(id, name, data) ==
  [id |-> id, name |-> name, notes |-> toBase64(compress(data)),
   revisionDate |-> RevOf(id), type |-> 2, folderId |-> "f-bwss"]
BadItem(id, name) ==
  [id |-> id, name |-> name, notes |-> toBase64(Garbage),
   revisionDate |-> RevOf(id), type |-> 2, folderId |-> "f-bwss"]
NoItem ==
  [id |-> 0, name |-> "", notes |-> toBase64(Garbage),
   revisionDate |-> [iso |-> 0], type |-> 0, folderId |-> ""]

\* bw edit item <id> <doc>: the item takes the fields of the document and a
\* fresh revisionDate.
StoreEdit(store, id, doc) ==
  [k \in 1 .. Len(store) |->
     IF store[k].id = id
       THEN [unJsonb64(doc) EXCEPT !.id = id, !.revisionDate = StoreNow]
       ELSE store[k]]
\* bw delete item <id>: the item leaves the listings.
StoreDelete(store, id) == SelectSeq(store, LAMBDA it : it.id # id)
\* bw create item <doc>: a new item with a fresh id.
StoreCreate(store, doc, id) ==
  Append(store, [unJsonb64(doc) EXCEPT !.id = id, !.revisionDate = StoreNow])

\* ------------------------------------------------------------------ prompt
\* What the operator may type at a prompt (the line read from stdin).
Typed == {"d", "P", " u", "x"}
\* confirm(q): the answer trimmed and lower-cased.
confirm(typed) ==
  CASE typed = "P" -> "p"
    [] typed = " u" -> "u"
    [] OTHER -> typed

\* Outcome of a bw invocation: exit status 0, or non-zero.
BwOut == {"ok", "fail"}
\* Outcome of bw unlock: also exit status 0 with output that has no line
\* exporting the session token.
UnlockOut == {"ok", "noline", "fail"}
\* Outcome of a bwJson invocation: also output that JSON.parse rejects.
JsonOut == {"ok", "fail", "garbled"}

\* ------------------------------------------------------------------ decisions
\* Decide without the fresh-client heuristic: a missing file always asks.
Decide_NoFreshClient(localStats, empty, upHash, localHash) ==
  IF ~ Exists(localStats) THEN "askRemoteOnly"
  ELSE IF upHash # localHash THEN "askDiverged"
  ELSE "skip"

\* Decide with the heuristic not looking at localEmpty: a missing file is
\* always pulled.
Decide_AlwaysPull(localStats, empty, upHash, localHash) ==
  IF ~ Exists(localStats) THEN "pull"
  ELSE IF upHash # localHash THEN "askDiverged"
  ELSE "skip"

\* Decide without the comparison of the fingerprints: an existing file
\* always asks.
Decide_AlwaysAsk(localStats, empty, upHash, localHash) ==
  IF ~ Exists(localStats) /\ empty THEN "pull"
  ELSE IF ~ Exists(localStats) THEN "askRemoteOnly"
  ELSE "askDiverged"

\* Decide taking the remote side whenever the fingerprints differ.
Decide_PullsDiverged(localStats, empty, upHash, localHash) ==
  IF ~ Exists(localStats) /\ empty THEN "pull"
  ELSE IF ~ Exists(localStats) THEN "askRemoteOnly"
  ELSE IF upHash # localHash THEN "pull"
  ELSE "skip"

\* The decision for a remote item, before any prompt: the action, or the
\* prompt to show.
Decide(localStats, empty, upHash, localHash) ==
  IF ~ Exists(localStats) /\ empty THEN "pull"
  ELSE IF ~ Exists(localStats) THEN "askRemoteOnly"
  ELSE IF upHash # localHash THEN "askDiverged"
  ELSE "skip"

\* The remote-only prompt with d taken as a deletion of the local file.
ChoiceRemoteOnly_DeleteLocal(answer) ==
  CASE answer = "d" -> "deleteLocal"
    [] answer = "p" -> "pull"
    [] OTHER -> "skip"

\* [d]elete remote/[p]ull
ChoiceRemoteOnly(answer) ==
  CASE answer = "d" -> "deleteRemote"
    [] answer = "p" -> "pull"
    [] OTHER -> "skip"

\* The divergence prompt with every other answer taken as pull.
ChoiceDiverged_DefaultPull(answer) ==
  CASE answer = "p" -> "pull"
    [] answer = "u" -> "push"
    [] OTHER -> "pull"

\* [p]ull/p[u]sh
ChoiceDiverged(answer) ==
  CASE answer = "p" -> "pull"
    [] answer = "u" -> "push"
    [] OTHER -> "skip"

\* The local-only prompt with every unrecognized answer taken as a deletion.
ChoiceLocalOnly_DefaultDelete(answer) ==
  CASE answer = "d" -> "deleteLocal"
    [] answer = "u" -> "create"
    [] OTHER -> "deleteLocal"

\* [d]elete local/p[u]sh
ChoiceLocalOnly(answer) ==
  CASE answer = "d" -> "deleteLocal"
    [] answer = "u" -> "create"
    [] OTHER -> "skip"

\* A push that sends the item as it was listed.
PushDoc_KeepsNotes(item, localData) == jsonb64(item)

\* A push that sends the new payload and nothing else of the item.
PushDoc_NotesOnly(item, localData) ==
  jsonb64([NoItem EXCEPT !.notes = toBase64(compress(localData))])

\* The document of the edit call of a push.
PushDoc(item, localData) ==
  jsonb64([item EXCEPT !.notes = toBase64(compress(localData))])

\* A create whose document names no folder.
CreateDoc_NoFolder(f, data, folderId) ==
  jsonb64([id |-> 0, name |-> f, notes |-> toBase64(compress(data)),
           revisionDate |-> [iso |-> 0], type |-> 2, folderId |-> ""])

\* The document of the create call of a push of a local-only file.
CreateDoc(f, data, folderId) ==
  jsonb64([id |-> 0, name |-> f, notes |-> toBase64(compress(data)),
           revisionDate |-> [iso |-> 0], type |-> 2, folderId |-> folderId])

\* ------------------------------------------------------------------ log
\* One entry per thing the run did: a bw call ("call:<op>"), a prompt, a file
\* written or removed, a name skipped, the process ending.
Ev(ev, name, id, doc, out) ==
  [ev |-> ev, name |-> name, id |-> id, doc |-> doc, out |-> out]
NoDoc == jsonb64(NoItem)


\* ------------------------------------------------------------------ initial states
\* The entries a name may have when the run starts.  "a" may be anything: no
\* entry, an entry that is no regular file, a file of any content with or
\* without the owner write bit (a file that an earlier pull created has
\* none).  The other names are absent or writable files.  Under root the
\* write bit decides nothing and is left set.
Entries(name, root) ==
  {NoEntry}
    \cup { File(d, OldMtime, TRUE) : d \in Data }
    \cup (IF name = "a" THEN {NotFile} ELSE {})
    \cup (IF name = "a" /\ ~ root THEN { File(d, OldMtime, FALSE) : d \in Data } ELSE {})

\* The items a folder may hold: any names (also the same name twice), any
\* contents, or (for "a") a payload that is no compressed file.
ItemsAt(id) ==
  { Item(id, n, d) : n \in Names, d \in Data } \cup { BadItem(id, "a") }

RECURSIVE Listings(_)
Listings(k) ==
  IF k = 0 THEN {<<>>}
  ELSE Listings(k - 1)
         \cup { Append(l, it) : l \in { m \in Listings(k - 1) : Len(m) = k - 1 },
                                it \in ItemsAt(k) }

OtherFolder == [id |-> "f-other", name |-> "other"]
SyncFolder == [id |-> "f-bwss", name |-> BW_FOLDER_NAME]
NoCur == [kind |-> "", item |-> NoItem, upData |-> 0, localData |-> 0]

Init ==
  /\ pc = "session"
  /\ exitCode = -1
  /\ env \in {"", "tok"}
  /\ bwSession = ""
  /\ bwFolderId = ""
  /\ isRoot \in BOOLEAN
  /\ fsys \in { d \in [Names -> UNION { Entries(n, isRoot) : n \in Names }] :
                    \A n \in Names : d[n] \in Entries(n, isRoot) }
  /\ folders \in {{OtherFolder}, {OtherFolder, SyncFolder}}
  /\ remote \in Listings(MaxItems)
  /\ (SyncFolder \notin folders => remote = <<>>)
  \* Without a token the run ends in Session: one folder content is enough.
  /\ (env = "" => remote = <<>>)
  /\ nextId = Len(remote) + 1
  /\ localRemaining = <<>>
  /\ localEmpty = FALSE
  /\ items = <<>>
  /\ idx = 0
  /\ cur = NoCur
  /\ log = <<>>
  /\ start = [fsys |-> fsys, remote |-> remote]
  /\ run = 1
  /\ prev = {}

\* ------------------------------------------------------------------ the script
\* A failure that ends the process with exit code 0.
Die_ExitZero(evs) ==
  /\ pc' = "exit"
  /\ exitCode' = 0
  /\ log' = log \o evs

\* process.exit(1), or an exception nothing catches: the process ends with a
\* non-zero exit code.
Die(evs) ==
  /\ pc' = "exit"
  /\ exitCode' = 1
  /\ log' = log \o evs

\* The script goes on at position p.
Goto(p, evs) ==
  /\ pc' = p
  /\ exitCode' = IF p = "done" THEN 0 ELSE exitCode
  /\ log' = log \o evs

\* Where the script is after the item at index i of listing its: the next
\* item, else the first remaining local name, else the end.
After(i, its, rem) ==
  IF i < Len(its) THEN "items" ELSE IF Len(rem) > 0 THEN "locals" ELSE "done"

\* The util module has no `os` binding: os.EOL throws a ReferenceError.
OsBound == FALSE

UNLOCK_STDOUT_SESSION_LINE_PREFIX == "$ export BW_SESSION="
\* What bw unlock writes to stdout when it exits with status 0: lines, each
\* a prefix and the characters after it.  "ok": the lines of a successful
\* unlock; "noline": output without the line that exports the token.
UnlockStdout(out) ==
  IF out = "ok"
    THEN <<[prefix |-> "Your vault is now unlocked!", rest |-> <<>>],
           [prefix |-> UNLOCK_STDOUT_SESSION_LINE_PREFIX,
            rest |-> <<"\"", "unlocked", "\"">>]>>
    ELSE <<[prefix |-> "Your vault is now unlocked!", rest |-> <<>>]>>
\* out.split(os.EOL).find((l) => l.startsWith(PREFIX)): the lines found.
SessionLines(lines) ==
  SelectSeq(lines, LAMBDA l : l.prefix = UNLOCK_STDOUT_SESSION_LINE_PREFIX)
\* line.slice(PREFIX.length + 1, -1): what follows the prefix, without its
\* first and its last character.
SliceToken(line) == SubSeq(line.rest, 2, Len(line.rest) - 1)[1]

\* bwSession = (() => {...})()
Session(out) ==
  /\ pc = "session"
  /\ LET called == Ev("call:unlock", "", 0, NoDoc, out)
         found == SessionLines(UnlockStdout(out))
     IN IF env # ""
          THEN /\ bwSession' = env
               /\ Goto("sync", <<>>)
        ELSE IF out = "fail" \/ ~ OsBound \/ Len(found) = 0
          THEN /\ Die(<<called>>)
               /\ UNCHANGED bwSession
        ELSE /\ bwSession' = SliceToken(found[1])
             /\ Goto("sync", <<called>>)
  /\ UNCHANGED <<env, bwFolderId, folders, remote, nextId, fsys, isRoot,
                 localRemaining, localEmpty, items, idx, cur, start, run, prev>>

\* bw("sync")
Sync(out) ==
  /\ pc = "sync"
  /\ IF out = "ok"
       THEN Goto("folder", <<Ev("call:sync", "", 0, NoDoc, out)>>)
       ELSE Die(<<Ev("call:sync", "", 0, NoDoc, out)>>)
  /\ UNCHANGED <<env, bwSession, bwFolderId, folders, remote, nextId, fsys,
                 isRoot, localRemaining, localEmpty, items, idx, cur, start, run, prev>>

\* A lookup that finds no folder, whatever the vault holds.
FindFolder_None(fs) == {}

\* bwJson("list", "folders").find((f) => f.name === BW_FOLDER_NAME)
FindFolder(fs) == { f \in fs : f.name = BW_FOLDER_NAME }

\* The id the store gives a folder created in a vault of k folders.
NewFolderId(k) ==
  CASE k = 1 -> "f-new1" [] k = 2 -> "f-new2" [] k = 3 -> "f-new3"
    [] k = 4 -> "f-new4" [] OTHER -> "f-new5"

\* const bwFolderId = (() => {...})()
Folder(out, outCreate) ==
  /\ pc = "folder"
  /\ LET found == FindFolder(folders)
         listed == Ev("call:list folders", "", 0, NoDoc, out)
         created == Ev("call:create folder", BW_FOLDER_NAME, 0, NoDoc, outCreate)
         new == [id |-> NewFolderId(Cardinality(folders)), name |-> BW_FOLDER_NAME]
     IN IF out # "ok"
          THEN /\ Die(<<listed>>)
               /\ UNCHANGED <<bwFolderId, folders>>
        ELSE IF found # {}
          THEN /\ bwFolderId' = (CHOOSE f \in found : TRUE).id
               /\ Goto("list", <<listed>>)
               /\ UNCHANGED folders
        ELSE /\ folders' = IF outCreate = "fail" THEN folders ELSE folders \cup {new}
             /\ IF outCreate = "ok"
                  THEN /\ bwFolderId' = new.id
                       /\ Goto("list", <<listed, created>>)
                  ELSE /\ Die(<<listed, created>>)
                       /\ UNCHANGED bwFolderId
  /\ UNCHANGED <<env, bwSession, remote, nextId, fsys, isRoot,
                 localRemaining, localEmpty, items, idx, cur, start, run, prev>>

\* const localRemaining = ...; const localEmpty = ...; const items = bwJson(...)
ListAll(out) ==
  /\ pc = "list"
  /\ localRemaining' = ListLocal(fsys)
  /\ localEmpty' = (Len(localRemaining') = 0)
  /\ LET listed == Ev("call:list items", "", 0, NoDoc, out)
     IN IF out = "ok"
          THEN /\ items' = remote
               /\ idx' = 1
               /\ Goto(After(0, items', localRemaining'), <<listed>>)
          ELSE /\ Die(<<listed>>)
               /\ UNCHANGED <<items, idx>>
  /\ UNCHANGED <<env, bwSession, bwFolderId, folders, remote, nextId, fsys,
                 isRoot, cur, start, run, prev>>


\* fs.readFileSync(name)
readFileSync(dir, name) == dir[name].data

\* switch (action) {...}: the action of one remote item carried out, and the
\* loop moved on; a pull is carried out up to the file being written, the
\* touch is the next step.  pre: what the iteration logged before.
Execute(action, item, upData, localData, out, rem, pre) ==
  LET name == item.name
      next == After(idx, items, rem)
      Step(evs) == /\ Goto(next, pre \o evs)
                   /\ idx' = IF next = "items" THEN idx + 1 ELSE 1
      Stop(evs) == /\ Die(pre \o evs)
                   /\ idx' = idx
  IN CASE action = "pull" ->
            IF MayWrite(fsys, name, isRoot)
              THEN /\ fsys' = writeFileSync(fsys, name, upData)
                   /\ Goto("touch", pre \o <<Ev("pull", name, item.id, NoDoc, "ok")>>)
                   /\ idx' = idx
                   /\ UNCHANGED <<remote, nextId>>
              ELSE /\ Stop(<<Ev("throw", name, item.id, NoDoc, "EACCES")>>)
                   /\ UNCHANGED <<fsys, remote, nextId>>
       [] action = "push" ->
            LET doc == PushDoc(item, localData)
            IN /\ remote' = IF out = "ok" THEN StoreEdit(remote, item.id, doc) ELSE remote
               /\ IF out = "ok"
                    THEN Step(<<Ev("call:edit item", name, item.id, doc, out)>>)
                    ELSE Stop(<<Ev("call:edit item", name, item.id, doc, out)>>)
               /\ UNCHANGED <<fsys, nextId>>
       [] action = "deleteLocal" ->
            /\ fsys' = unlinkSync(fsys, name)
            /\ Step(<<Ev("unlink", name, item.id, NoDoc, "ok")>>)
            /\ UNCHANGED <<remote, nextId>>
       [] action = "deleteRemote" ->
            /\ remote' = IF out = "ok" THEN StoreDelete(remote, item.id) ELSE remote
            /\ IF out = "ok"
                 THEN Step(<<Ev("call:delete item", name, item.id, NoDoc, out)>>)
                 ELSE Stop(<<Ev("call:delete item", name, item.id, NoDoc, out)>>)
            /\ UNCHANGED <<fsys, nextId>>
       [] OTHER ->
            /\ Step(<<Ev("skip", name, item.id, NoDoc, "ok")>>)
            /\ UNCHANGED <<fsys, remote, nextId>>

\* One iteration of `for (const item of items)`, up to its prompt if it has
\* one, to its end if it has none.
ExamineItem ==
  /\ pc = "items"
  /\ LET item == items[idx]
         name == item.name
         rem == SetDelete(localRemaining, name)
         blob == fromBase64(item.notes)
         upData == decompress(blob)
         upHash == hash(upData)
         localStats == lstatSync(fsys, name)
         localData == readFileSync(fsys, name)
         localHash == hash(localData)
         d == Decide(localStats, localEmpty, upHash, localHash)
         next == After(idx, items, rem)
     IN /\ localRemaining' = rem
        /\ IF ~ Decompressible(blob)
             THEN /\ Die(<<Ev("throw", name, item.id, NoDoc, "decompress")>>)
                  /\ UNCHANGED <<fsys, remote, nextId, idx, cur>>
           ELSE IF Exists(localStats) /\ ~ isFile(localStats)
             THEN /\ Goto(next, <<Ev("notfile", name, item.id, NoDoc, "ok")>>)
                  /\ idx' = IF next = "items" THEN idx + 1 ELSE 1
                  /\ UNCHANGED <<fsys, remote, nextId, cur>>
           ELSE IF d \in {"askRemoteOnly", "askDiverged"}
             THEN /\ cur' = [kind |-> d, item |-> item, upData |-> upData,
                             localData |-> localData]
                  /\ Goto("confirm", <<Ev("prompt", name, item.id, NoDoc, d)>>)
                  /\ UNCHANGED <<fsys, remote, nextId, idx>>
           ELSE /\ Execute(d, item, upData, localData, "ok", rem, <<>>)
                /\ cur' = IF d = "pull" /\ MayWrite(fsys, name, isRoot)
                             THEN [kind |-> "touch", item |-> item, upData |-> upData,
                                   localData |-> localData]
                             ELSE cur
  /\ UNCHANGED <<env, bwSession, bwFolderId, folders, isRoot, localEmpty, items,
                 start, run, prev>>

\* The operator answers the prompt of a remote item; the chosen action is
\* carried out.
AnswerItem(typed, out) ==
  /\ pc = "confirm"
  /\ LET answer == confirm(typed)
         action == IF cur.kind = "askRemoteOnly"
                     THEN ChoiceRemoteOnly(answer)
                     ELSE ChoiceDiverged(answer)
     IN /\ Execute(action, cur.item, cur.upData, cur.localData, out, localRemaining,
                <<Ev("answer", cur.item.name, cur.item.id, NoDoc, answer)>>)
        /\ cur' = IF action = "pull" /\ MayWrite(fsys, cur.item.name, isRoot)
                     THEN [cur EXCEPT !.kind = "touch"]
                     ELSE NoCur
  /\ UNCHANGED <<env, bwSession, bwFolderId, folders, isRoot, localRemaining,
                 localEmpty, items, start, run, prev>>

\* cp.execFileSync("touch", ["-t", upTs.toFormat("yyyyMMddHHmm.ss"), name]):
\* the second half of a pull.  When touch exits non-zero execFileSync throws
\* and nothing catches it.
Touch(out) ==
  /\ pc = "touch"
  /\ LET item == cur.item
         name == item.name
         next == After(idx, items, localRemaining)
     IN IF out = "ok"
          THEN /\ fsys' = touch(fsys, name, fromISO(item.revisionDate))
               /\ Goto(next, <<Ev("touch", name, item.id, NoDoc, out)>>)
               /\ idx' = IF next = "items" THEN idx + 1 ELSE 1
          ELSE /\ Die(<<Ev("touch", name, item.id, NoDoc, out)>>)
               /\ UNCHANGED <<fsys, idx>>
  /\ cur' = NoCur
  /\ UNCHANGED <<env, bwSession, bwFolderId, folders, remote, nextId, isRoot,
                 localRemaining, localEmpty, items, start, run, prev>>

\* One iteration of `for (const f of localRemaining)`: the prompt, the
\* operator's answer and the action.
LocalStep(typed, out) ==
  /\ pc = "locals"
  /\ LET f == localRemaining[idx]
         answer == confirm(typed)
         action == ChoiceLocalOnly(answer)
         doc == CreateDoc(f, readFileSync(fsys, f), bwFolderId)
         next == IF idx < Len(localRemaining) THEN "locals" ELSE "done"
         pre == <<Ev("prompt", f, 0, NoDoc, "askLocalOnly"),
                  Ev("answer", f, 0, NoDoc, answer)>>
     IN CASE action = "deleteLocal" ->
               /\ fsys' = unlinkSync(fsys, f)
               /\ Goto(next, pre \o <<Ev("unlink", f, 0, NoDoc, "ok")>>)
               /\ idx' = idx + 1
               /\ UNCHANGED <<remote, nextId>>
          [] action = "create" ->
               /\ remote' = IF out = "ok" THEN StoreCreate(remote, doc, nextId) ELSE remote
               /\ nextId' = IF out = "ok" THEN nextId + 1 ELSE nextId
               /\ IF out = "ok"
                    THEN /\ Goto(next, pre \o <<Ev("call:create item", f, nextId, doc, out)>>)
                         /\ idx' = idx + 1
                    ELSE /\ Die(pre \o <<Ev("call:create item", f, 0, doc, out)>>)
                         /\ idx' = idx
               /\ UNCHANGED fsys
          [] OTHER ->
               /\ Goto(next, pre \o <<Ev("skip", f, 0, NoDoc, "ok")>>)
               /\ idx' = idx + 1
               /\ UNCHANGED <<fsys, remote, nextId>>
  /\ UNCHANGED <<env, bwSession, bwFolderId, folders, isRoot, localRemaining,
                 localEmpty, items, cur, start, run, prev>>

Next ==
  \/ \E out \in UnlockOut : Session(out)
  \/ \E out \in BwOut : Sync(out)
  \/ \E out \in JsonOut, outCreate \in JsonOut : Folder(out, outCreate)
  \/ \E out \in JsonOut : ListAll(out)
  \/ ExamineItem
  \/ \E typed \in Typed, out \in BwOut : AnswerItem(typed, out)
  \/ \E out \in BwOut : Touch(out)
  \/ \E typed \in Typed, out \in BwOut : LocalStep(typed, out)

Spec == Init /\ [][Next]_vars

\* ------------------------------------------------------------------ running again
\* The ids of the items that a finished run skipped because the fingerprints
\* were equal, and whose file it did not write afterwards.
LeftEqual ==
  { log[i].id : i \in { j \in 1 .. Len(log) :
      /\ log[j].ev = "skip" /\ log[j].id # 0
      /\ log[j - 1].ev # "answer"
      /\ \A m \in j + 1 .. Len(log) :
           ~ (log[m].ev = "pull" /\ log[m].name = log[j].name) } }

\* The script is started again after a run has ended, normally or not, in
\* the directory and against the vault as that run left them.
Rerun ==
  /\ pc \in {"done", "exit"}
  /\ run < MaxRuns
  /\ pc' = "session"
  /\ exitCode' = -1
  /\ bwSession' = ""
  /\ bwFolderId' = ""
  /\ localRemaining' = <<>>
  /\ localEmpty' = FALSE
  /\ items' = <<>>
  /\ idx' = 0
  /\ cur' = NoCur
  /\ log' = <<>>
  /\ start' = [fsys |-> fsys, remote |-> remote]
  /\ run' = run + 1
  /\ prev' = LeftEqual
  /\ UNCHANGED <<env, folders, remote, nextId, fsys, isRoot>>

\* The initial states of the runs that are repeated: a token in the
\* environment, no ignored file, items named "a" or "b".
InitAgain ==
  /\ Init
  /\ env = "tok"
  /\ ~ isRoot
  /\ fsys["k.tmp"] = NoEntry
  /\ \A k \in 1 .. Len(remote) : remote[k].name \in {"a", "b"}

NextAgain == Next \/ Rerun

SpecAgain == InitAgain /\ [][NextAgain]_vars

\* ------------------------------------------------------------------ the directory changed from outside
\* While confirm() blocks on stdin, something other than the script gives
\* the regular file n the content d.  Each file is changed from outside at
\* most once: only a file that still has the mtime it started with.
Outside(n, d) ==
  /\ pc = "confirm"
  /\ isFile(fsys[n])
  /\ fsys[n].mtime = OldMtime
  /\ fsys[n].data # d
  /\ fsys' = [fsys EXCEPT ![n] = File(d, WriteNow, fsys[n].w)]
  /\ UNCHANGED <<pc, exitCode, env, bwSession, bwFolderId, folders, remote, nextId,
                 isRoot, localRemaining, localEmpty, items, idx, cur, log, start,
                 run, prev>>

NextOutside == Next \/ \E n \in Names, d \in Data : Outside(n, d)

SpecOutside == InitAgain /\ [][NextOutside]_vars

\* ================================================================== properties
LogIdx == 1 .. Len(log)
\* No two items of a listing have the same name.
UniqueNames(its) ==
  \A j, k \in 1 .. Len(its) : its[j].name = its[k].name => j = k
\* The content an item's payload decompresses to.
PayloadOf(item) == decompress(fromBase64(item.notes))
\* The log has an entry ev for name n.
Did(ev, n) == \E i \in LogIdx : log[i].ev = ev /\ log[i].name = n
\* The decision for n was skip (also: its local entry is no regular file).
Skipped(n) == Did("skip", n) \/ Did("notfile", n)
\* The operator answered a prompt for n.
Answered(n) == Did("answer", n)
\* Entry i of the log is the operator's answer `a` to a prompt of kind `kind`.
IsAnswer(i, kind, a) ==
  /\ i > 1
  /\ log[i].ev = "answer" /\ log[i].out = a
  /\ log[i - 1].ev = "prompt" /\ log[i - 1].out = kind
\* Entry i of the log is a mutation of the directory or of the folder.
Mutation(i) ==
  \/ log[i].ev \in {"pull", "unlink"}
  \/ log[i].ev \in {"call:edit item", "call:delete item", "call:create item",
                    "call:create folder"} /\ log[i].out # "fail"
IsCall(i) ==
  log[i].ev \in {"call:unlock", "call:sync", "call:list folders",
                 "call:create folder", "call:list items", "call:edit item",
                 "call:delete item", "call:create item"}

\* ------------------------------------------------------------------ C1
\* After a completed pass, name n is reconciled: every remote item of the
\* name has the local file's fingerprint unless the name was skipped, and a
\* name that is on one side only was answered for or skipped.
Reconciled(n) ==
  LET here == isFile(fsys[n])
      there == { k \in 1 .. Len(remote) : remote[k].name = n }
  IN /\ \A k \in there :
          here => \/ hash(fsys[n].data) = hash(PayloadOf(remote[k]))
                  \/ Skipped(n)
     /\ (there # {} /\ ~ here) => (Answered(n) \/ Skipped(n))
     /\ (there = {} /\ n \in Candidates(fsys)) => (Answered(n) \/ Skipped(n))

\* C1 as stated: after a completed pass every name is reconciled, whatever
\* the initial local and remote state and whatever the operator answered.
C1_AsStated == pc = "done" => \A n \in Names : Reconciled(n)

\* C1, amended: after a completed pass over a listing in which no two items
\* share a name, every name of the candidate set or of the folder has equal
\* local and remote fingerprints, or was skipped, or is on one side only
\* after an answer of the operator.
C1_Reconciled ==
  (pc = "done" /\ UniqueNames(items)) => \A n \in Names : Reconciled(n)

\* A completed pass in which one diverged name was pushed and another name,
\* missing locally, was pulled on the operator's answer.
C1_Witness ==
  /\ pc = "done"
  /\ UniqueNames(items)
  /\ \E i, j \in LogIdx :
       /\ IsAnswer(i, "askDiverged", "u")
       /\ IsAnswer(j, "askRemoteOnly", "p")
       /\ isFile(fsys[log[i].name]) /\ isFile(fsys[log[j].name])

\* ------------------------------------------------------------------ C2
\* The run started in an empty directory with a non-empty folder.
FreshStart ==
  /\ \A n \in Names : ~ Exists(start.fsys[n])
  /\ Len(start.remote) > 0

\* Every item of the listing was pulled, nothing was asked, and every local
\* file has the content of the item of its name.
AllPulledUnasked ==
  /\ \A i \in LogIdx : log[i].ev # "prompt"
  /\ \A k \in 1 .. Len(items) :
       /\ \E i \in LogIdx : log[i].ev = "pull" /\ log[i].id = items[k].id
       /\ isFile(fsys[items[k].name])
       /\ hash(fsys[items[k].name].data) = hash(PayloadOf(items[k]))
  /\ \A n \in Names :
       isFile(fsys[n]) => \E k \in 1 .. Len(items) : items[k].name = n

\* C2 as stated: from an empty directory and any non-empty folder, the
\* completed run pulled every item without a prompt and every local file
\* has the fingerprint of its item.
C2_AsStated == (pc = "done" /\ FreshStart) => AllPulledUnasked

\* C2, amended: from an empty directory and a non-empty folder whose items
\* have pairwise different names, the completed run pulled every item
\* without a prompt and every local file has the fingerprint of its item.
C2_FreshPull ==
  (pc = "done" /\ FreshStart /\ UniqueNames(items)) => AllPulledUnasked

\* A completed run from an empty directory that pulled two items.
C2_Witness ==
  /\ pc = "done" /\ FreshStart /\ UniqueNames(items)
  /\ Len(items) = 2
  /\ \A k \in 1 .. 2 : isFile(fsys[items[k].name])

\* ------------------------------------------------------------------ C3
Ignored(f) == \E p \in ignorePatterns : minimatch(f, p)

\* C3 as stated: a local file that an ignore pattern matches is never in the
\* candidate set, is never presented in the remaining-local phase, and is
\* never pushed (edit or create) or deleted by the run.
C3_AsStated ==
  \A f \in Names :
    (Ignored(f) /\ isFile(start.fsys[f])) =>
      /\ f \notin SetOf(localRemaining)
      /\ \A i \in LogIdx :
           log[i].name = f =>
             /\ log[i].ev \notin {"call:edit item", "call:create item", "unlink"}
             /\ ~ (log[i].ev = "prompt" /\ log[i].out = "askLocalOnly")

\* ------------------------------------------------------------------ C4
\* Entry i of the log is a pull nobody was asked about.
UnaskedPull(i) ==
  /\ log[i].ev = "pull"
  /\ ~ (i > 1 /\ log[i - 1].ev = "answer")

\* C4 as stated: an item without a local file is pulled without a prompt
\* only if no local file at all existed before the run.
C4_AsStated ==
  \A i \in LogIdx :
    UnaskedPull(i) => \A n \in Names : ~ Exists(start.fsys[n])

\* C4, amended: an item whose name has no local entry is pulled without a
\* prompt only if the candidate set was empty when the run started (no
\* regular file that is neither ignored nor the configuration file); if a
\* candidate existed the operator is prompted (delete-remote or pull), and
\* the item is pulled only on the answer p and deleted only on the answer d.
C4_RemoteOnly ==
  [][ /\ (pc = "items" /\ Decompressible(fromBase64(items[idx].notes))
             /\ ~ Exists(fsys[items[idx].name])) =>
          IF Candidates(start.fsys) = {}
            THEN /\ pc' # "confirm"
                 /\ log' = Append(log, Ev("pull", items[idx].name, items[idx].id, NoDoc, "ok"))
                 /\ isFile(fsys'[items[idx].name])
            ELSE /\ pc' = "confirm"
                 /\ cur'.kind = "askRemoteOnly"
                 /\ log' = Append(log, Ev("prompt", items[idx].name, items[idx].id,
                                          NoDoc, "askRemoteOnly"))
                 /\ fsys' = fsys /\ remote' = remote
      /\ (pc = "confirm" /\ cur.kind = "askRemoteOnly") =>
          /\ fsys' # fsys => log'[Len(log) + 1].out = "p"
          /\ remote' # remote => log'[Len(log) + 1].out = "d"
          /\ \A n \in Names : n # cur.item.name => fsys'[n] = fsys[n]
    ]_vars

\* An item was pulled unasked into a directory that held an ignored file
\* and no candidate.
C4_Witness ==
  /\ \E i \in LogIdx : UnaskedPull(i)
  /\ \E n \in Names : isFile(start.fsys[n])
  /\ Candidates(start.fsys) = {}

\* ------------------------------------------------------------------ C5
\* The item at index k of the listing, or local name f, has its decision in
\* the log.
Processed(id) ==
  \E i \in LogIdx :
    /\ log[i].id = id
    /\ \/ log[i].ev \in {"pull", "skip", "notfile"}
       \/ log[i].ev \in {"call:edit item", "call:delete item"} /\ log[i].out = "ok"
ProcessedLocal(f) ==
  \E i \in LogIdx :
    /\ log[i].name = f
    /\ \/ log[i].ev \in {"unlink", "skip"}
       \/ log[i].ev = "call:create item" /\ log[i].out = "ok"

\* C5: a bw call that fails, or a bwJson call whose output is no JSON, is
\* the last thing the run does (no mutation, no further call, no retry) and
\* the process ends with a non-zero exit code; exit code 0 is produced only
\* when every item of the listing and every remaining local name has been
\* processed.
C5_FailFast ==
  /\ \A i \in LogIdx :
       (IsCall(i) /\ log[i].out # "ok") =>
         (i = Len(log) /\ pc = "exit" /\ exitCode = 1)
  /\ exitCode = 0 =>
       /\ pc = "done"
       /\ \A k \in 1 .. Len(items) : Processed(items[k].id)
       /\ \A f \in SetOf(localRemaining) : ProcessedLocal(f)
  /\ exitCode # -1 <=> pc \in {"done", "exit"}

\* A run that had already pulled a file when an edit call failed.
C5_Witness ==
  /\ exitCode = 1
  /\ Len(log) > 0
  /\ log[Len(log)].ev = "call:edit item" /\ log[Len(log)].out = "fail"
  /\ \E i \in LogIdx : log[i].ev = "pull"


\* ------------------------------------------------------------------ C6
\* The step is the operator's answer `a` at the prompt of kind `kind`.
Answers(kind, a) ==
  /\ pc = "confirm" /\ cur.kind = kind
  /\ Len(log') > Len(log)
  /\ log'[Len(log) + 1].ev = "answer" /\ log'[Len(log) + 1].out = a

\* C6 as stated: when a local file and an item of its name differ and the
\* operator chooses pull, then after the action (the write, and the touch
\* when it succeeds) the file's content is the decompressed payload, its
\* modification time is the item's timestamp to the second, and the remote
\* item is unchanged.
C6_AsStated ==
  [][ /\ Answers("askDiverged", "p") =>
            LET n == cur.item.name
            IN /\ pc' = "touch"
               /\ isFile(fsys'[n])
               /\ fsys'[n].data = PayloadOf(cur.item)
               /\ remote' = remote
      /\ ( /\ pc = "touch"
           /\ IsAnswer(Len(log) - 1, "askDiverged", "p")
           /\ log'[Len(log')].out = "ok" ) =>
            LET n == cur.item.name
            IN /\ isFile(fsys'[n])
               /\ fsys'[n].data = PayloadOf(cur.item)
               /\ fsys'[n].mtime \div 1000 = fromISO(cur.item.revisionDate) \div 1000
               /\ remote' = remote
    ]_vars

\* ------------------------------------------------------------------ C7
\* C7: when the operator chooses push for a diverged pair, one edit call is
\* issued, against the id of the listed item; its document is the listed
\* item with only the payload replaced, by the compressed content of the
\* local file; when the call succeeds the folder has the same items, all
\* unchanged but this one, which keeps id and name and holds the new
\* payload; no item is created and no local file is modified.
C7_PushEdits ==
  [][ Answers("askDiverged", "u") =>
        LET it == cur.item
            n == it.name
            e == log'[Len(log')]
        IN /\ Len(log') = Len(log) + 2
           /\ e.ev = "call:edit item" /\ e.id = it.id
           /\ unJsonb64(e.doc) = [it EXCEPT !.notes = toBase64(compress(fsys[n].data))]
           /\ fsys' = fsys
           /\ nextId' = nextId
           /\ Len(remote') = Len(remote)
           /\ \A k \in 1 .. Len(remote) :
                IF remote[k].id = it.id /\ e.out = "ok"
                  THEN /\ remote'[k].id = it.id
                       /\ remote'[k].name = it.name
                       /\ remote'[k].folderId = it.folderId
                       /\ remote'[k].type = it.type
                       /\ Decompressible(fromBase64(remote'[k].notes))
                       /\ PayloadOf(remote'[k]) = fsys[n].data
                  ELSE remote'[k] = remote[k]
    ]_vars

\* A diverged pair was pushed and the edit call succeeded.
C7_Witness ==
  \E i \in LogIdx :
    /\ IsAnswer(i, "askDiverged", "u")
    /\ i < Len(log)
    /\ log[i + 1].ev = "call:edit item" /\ log[i + 1].out = "ok"
    /\ log[i].name \in Candidates(start.fsys)
    /\ \E k \in 1 .. Len(remote), j \in 1 .. Len(items) :
         /\ remote[k].id = log[i].id /\ items[j].id = log[i].id
         /\ PayloadOf(remote[k]) # PayloadOf(items[j])

\* ------------------------------------------------------------------ C9
\* C9: when the operator selects push for a remaining local name and the
\* create call succeeds, the folder has one item more and the others as they
\* were; the new item is in the folder of the configured name, has the file
\* name as its name and a payload that decompresses to the file's content;
\* no item had that name; the local directory is unchanged.
C9_PushCreates ==
  [][ ( /\ pc = "locals"
        /\ Len(log') = Len(log) + 3
        /\ log'[Len(log) + 2].ev = "answer" /\ log'[Len(log) + 2].out = "u"
        /\ log'[Len(log) + 3].out = "ok" ) =>
        LET f == localRemaining[idx]
            new == remote'[Len(remote')]
        IN /\ log'[Len(log) + 3].ev = "call:create item"
           /\ Len(remote') = Len(remote) + 1
           /\ SubSeq(remote', 1, Len(remote)) = remote
           /\ \A k \in 1 .. Len(remote) : remote[k].name # f /\ remote[k].id # new.id
           /\ new.name = f
           /\ Decompressible(fromBase64(new.notes))
           /\ PayloadOf(new) = fsys[f].data
           /\ new.folderId = bwFolderId
           /\ \E fo \in folders : fo.id = new.folderId /\ fo.name = BW_FOLDER_NAME
           /\ isFile(fsys[f])
           /\ fsys' = fsys
    ]_vars

\* A local-only file was pushed into a folder that already held an item.
C9_Witness ==
  /\ Len(items) > 0
  /\ \E i \in LogIdx :
       /\ IsAnswer(i, "askLocalOnly", "u")
       /\ i < Len(log)
       /\ log[i + 1].ev = "call:create item" /\ log[i + 1].out = "ok"
       /\ \E k \in 1 .. Len(remote) : remote[k].name = log[i].name

\* ------------------------------------------------------------------ C10
\* C10: when the operator selects delete-remote for an item whose name has
\* no local entry and the delete call succeeds, the folder lists every item
\* it listed before but this one, each unchanged, and the local directory
\* is unchanged.
C10_DeleteRemote ==
  [][ ( /\ Answers("askRemoteOnly", "d")
        /\ log'[Len(log')].out = "ok" ) =>
        LET id == cur.item.id
        IN /\ log'[Len(log')].ev = "call:delete item" /\ log'[Len(log')].id = id
           /\ Len(log') = Len(log) + 2
           /\ Len(remote') = Len(remote) - 1
           /\ \A k \in 1 .. Len(remote') : remote'[k].id # id
           /\ \A k \in 1 .. Len(remote) :
                remote[k].id # id => \E j \in 1 .. Len(remote') : remote'[j] = remote[k]
           /\ ~ Exists(fsys[cur.item.name])
           /\ fsys' = fsys
    ]_vars

\* An item was deleted on the operator's answer while another item stayed
\* in the folder.
C10_Witness ==
  /\ Len(remote) > 0
  /\ \E i \in LogIdx :
       /\ IsAnswer(i, "askRemoteOnly", "d")
       /\ i < Len(log)
       /\ log[i + 1].ev = "call:delete item" /\ log[i + 1].out = "ok"
       /\ \A k \in 1 .. Len(remote) : remote[k].id # log[i].id


\* ------------------------------------------------------------------ C8
\* The item the remote loop is at has a regular local file of its name with
\* the fingerprint of its payload.
AtEqualPair ==
  /\ pc = "items"
  /\ Decompressible(fromBase64(items[idx].notes))
  /\ isFile(lstatSync(fsys, items[idx].name))
  /\ hash(fsys[items[idx].name].data) = hash(PayloadOf(items[idx]))

\* The iteration skips: no prompt, nothing written, nothing sent.
SkipsUnasked ==
  /\ log' = Append(log, Ev("skip", items[idx].name, items[idx].id, NoDoc, "ok"))
  /\ pc' # "confirm"
  /\ fsys' = fsys /\ remote' = remote /\ nextId' = nextId /\ folders' = folders

\* C8: an item whose local file has the fingerprint of its payload is
\* skipped, without a prompt and without any local or remote mutation; and
\* when the script is run again and the file is as the run before left it,
\* the item is skipped the same way again.
C8_EqualSkips ==
  [][ /\ AtEqualPair => SkipsUnasked
      /\ ( /\ pc = "items" /\ run > 1
           /\ items[idx].id \in prev
           /\ fsys[items[idx].name] = start.fsys[items[idx].name] ) => SkipsUnasked
    ]_vars

\* In a second run an item is skipped as equal that the first run had
\* skipped as equal.
C8_Witness ==
  /\ run = 2
  /\ \E i \in LogIdx :
       /\ log[i].ev = "skip" /\ log[i].id \in prev
       /\ log[i - 1].ev # "answer"

\* ------------------------------------------------------------------ C11
\* The process has ended.
Ended == pc \in {"done", "exit"}
\* No bw call and no touch of the run exited non-zero or gave unusable output.
NoCallFailed ==
  \A i \in LogIdx : (IsCall(i) \/ log[i].ev = "touch") => log[i].out = "ok"
\* Every item of the listing holds a compressed file.
WellFormed(its) ==
  \A k \in 1 .. Len(its) : Decompressible(fromBase64(its[k].notes))
\* The log entries that are the decision executed for the listed item id.
DecisionsOf(id) ==
  { i \in LogIdx :
      /\ log[i].id = id
      /\ log[i].ev \in {"pull", "skip", "notfile", "call:edit item", "call:delete item"} }
\* The log entries that are the decision executed for local name f in the
\* remaining-local phase.
LocalDecisionsOf(f) ==
  { i \in LogIdx :
      /\ i > 2
      /\ log[i].name = f
      /\ log[i].ev \in {"unlink", "skip", "call:create item"}
      /\ log[i - 2].ev = "prompt" /\ log[i - 2].out = "askLocalOnly" }
\* f was a candidate when the run started and no item of the folder has its name.
Unmatched(f) ==
  /\ f \in Candidates(start.fsys)
  /\ \A k \in 1 .. Len(start.remote) : start.remote[k].name # f
\* n had a decision in the remote-item phase.
HandledRemote(n) ==
  \E k \in 1 .. Len(items) :
    items[k].name = n /\ DecisionsOf(items[k].id) # {}
\* n was presented in the remaining-local phase.
PresentedLocal(n) ==
  \E i \in LogIdx :
    log[i].ev = "prompt" /\ log[i].out = "askLocalOnly" /\ log[i].name = n
\* What the action of log entry i did is still so.
Persists(i) ==
  LET e == log[i]
  IN CASE e.ev = "pull" ->
            /\ isFile(fsys[e.name])
            /\ \E k \in 1 .. Len(items) :
                 items[k].id = e.id /\ fsys[e.name].data = PayloadOf(items[k])
       [] e.ev = "unlink" -> ~ Exists(fsys[e.name])
       [] e.ev = "call:edit item" /\ e.out = "ok" ->
            \E k \in 1 .. Len(remote) :
              remote[k].id = e.id /\ remote[k].notes = unJsonb64(e.doc).notes
       [] e.ev = "call:delete item" /\ e.out = "ok" ->
            \A k \in 1 .. Len(remote) : remote[k].id # e.id
       [] e.ev = "call:create item" /\ e.out = "ok" ->
            \E k \in 1 .. Len(remote) :
              remote[k].id = e.id /\ remote[k].notes = unJsonb64(e.doc).notes
       [] OTHER -> TRUE

\* C11 as stated: when every prompt is answered and no external call fails,
\* the run is never stuck and ends, and when it has ended every item of the
\* folder and every candidate name that no item matches has exactly one
\* executed decision; no name handled in the remote-item phase is presented
\* in the remaining-local phase; and what an executed action did is not
\* undone later in the run.
C11_AsStated ==
  WellFormed(start.remote) =>
    /\ ~ Ended => ENABLED Next
    /\ (Ended /\ NoCallFailed) =>
         /\ \A k \in 1 .. Len(start.remote) :
              Cardinality(DecisionsOf(start.remote[k].id)) = 1
         /\ \A f \in Names : Unmatched(f) => Cardinality(LocalDecisionsOf(f)) = 1
    /\ \A n \in Names : ~ (HandledRemote(n) /\ PresentedLocal(n))
    /\ \A i \in LogIdx : Persists(i)

\* ------------------------------------------------------------------ C12
\* The entries the step adds to the log.
Added == { log'[i] : i \in Len(log) + 1 .. Len(log') }
\* The step executes a decision of the given kinds.
Executes(evs) == \E e \in Added : e.ev \in evs
\* In this state no pull is applied in part: a file whose latest write was a
\* pull holds the payload of the pulled item and has the item's timestamp,
\* to the second.
NoPartialPull ==
  \A i \in LogIdx :
    ( /\ log[i].ev = "pull"
      /\ \A j \in LogIdx : (j > i /\ log[j].name = log[i].name) => log[j].ev = "touch" ) =>
      \E k \in 1 .. Len(items) :
        /\ items[k].id = log[i].id
        /\ isFile(fsys[log[i].name])
        /\ fsys[log[i].name].data = PayloadOf(items[k])
        /\ fsys[log[i].name].mtime = touchFormat(fromISO(items[k].revisionDate))

\* C12 as stated: every executed decision is one atomic mutation on one
\* side: a pull and a delete-local change only the local directory, a push
\* and a delete-remote change only the folder, a skip changes neither; and
\* no state is reached in which the mutation of a decision is applied only
\* in part.
C12_AsStated ==
  [][ /\ Executes({"pull", "touch", "unlink"}) => (remote' = remote /\ folders' = folders)
      /\ Executes({"call:edit item", "call:delete item", "call:create item"}) =>
           fsys' = fsys
      /\ Executes({"skip", "notfile"}) => (fsys' = fsys /\ remote' = remote)
      /\ NoPartialPull'
    ]_vars

\* ------------------------------------------------------------------ C13
\* The two choices a prompt offers.
Offered(kind) ==
  CASE kind = "askRemoteOnly" -> {"d", "p"}
    [] kind = "askDiverged" -> {"p", "u"}
    [] kind = "askLocalOnly" -> {"d", "u"}
    [] OTHER -> {}
\* The step leaves the directory, the folder and the vault as they are.
NothingMutated ==
  fsys' = fsys /\ remote' = remote /\ nextId' = nextId /\ folders' = folders

\* C13: at each of the three prompts a response that is none of the two
\* offered choices (after trimming and lower-casing) makes the decision for
\* that name skip: nothing is written, removed or sent for it, and the run
\* goes on with the next name (or ends normally when there is none).
C13_UnknownSkips ==
  [][ /\ ( /\ pc = "confirm"
           /\ log'[Len(log) + 1].out \notin Offered(cur.kind) ) =>
            /\ log' = log \o <<Ev("answer", cur.item.name, cur.item.id, NoDoc,
                                  log'[Len(log) + 1].out),
                               Ev("skip", cur.item.name, cur.item.id, NoDoc, "ok")>>
            /\ NothingMutated
            /\ pc' = After(idx, items, localRemaining)
            /\ (pc' = "items" => idx' = idx + 1)
            /\ exitCode' \in {-1, 0}
      /\ ( /\ pc = "locals"
           /\ log'[Len(log) + 2].out \notin Offered("askLocalOnly") ) =>
            /\ Len(log') = Len(log) + 3
            /\ log'[Len(log) + 1] = Ev("prompt", localRemaining[idx], 0, NoDoc, "askLocalOnly")
            /\ log'[Len(log) + 3] = Ev("skip", localRemaining[idx], 0, NoDoc, "ok")
            /\ NothingMutated
            /\ pc' = (IF idx < Len(localRemaining) THEN "locals" ELSE "done")
            /\ idx' = idx + 1
            /\ exitCode' \in {-1, 0}
    ]_vars

\* A completed run in which an unrecognized response was given at a prompt
\* of each kind, and a later name was still decided.
C13_Witness ==
  /\ pc = "done"
  /\ \E i, j \in LogIdx :
       /\ i < j
       /\ log[i].ev = "answer" /\ log[i].out \notin Offered(log[i - 1].out)
       /\ log[i - 1].out \in {"askRemoteOnly", "askDiverged"}
       /\ log[i + 1].ev = "skip"
       /\ log[j].ev = "answer" /\ log[j].out \notin Offered("askLocalOnly")
       /\ log[j - 1].out = "askLocalOnly"
       /\ log[j + 1].ev = "skip"
       /\ \E m \in LogIdx : m > j + 1 /\ log[m].ev = "unlink"

\* ------------------------------------------------------------------ C14
\* The remote loop is at an item (holding a compressed file) whose name is a
\* local entry that is no regular file: a directory, a symlink.
AtNonFile ==
  /\ pc = "items"
  /\ Decompressible(fromBase64(items[idx].notes))
  /\ fsys[items[idx].name].kind = "other"

\* C14: when the name of a remote item exists locally but is no regular
\* file, that name is skipped: no prompt, nothing written, removed or sent;
\* and the run goes on with the next item, else with the remaining local
\* names, else to its normal end.
C14_NonFileSkipped ==
  [][ AtNonFile =>
        LET item == items[idx]
        IN /\ log' = Append(log, Ev("notfile", item.name, item.id, NoDoc, "ok"))
           /\ NothingMutated
           /\ pc' = After(idx, items, SetDelete(localRemaining, item.name))
           /\ pc' \in {"items", "locals", "done"}
           /\ (pc' = "items" => idx' = idx + 1)
           /\ exitCode' \in {-1, 0}
    ]_vars

\* A completed run that met an item whose name is a local non-file and then
\* pushed the file of the next item.
C14_Witness ==
  /\ pc = "done"
  /\ \E i, j \in LogIdx :
       /\ i < j
       /\ log[i].ev = "notfile" /\ start.fsys[log[i].name].kind = "other"
       /\ log[j].ev = "call:edit item" /\ log[j].out = "ok"
       /\ log[j].name \in Candidates(start.fsys)

\* ------------------------------------------------------------------ C15
\* The folders of the vault that have exactly the configured name.
NamedFolders(fs) == { f \in fs : f.name = BW_FOLDER_NAME }

\* C15: folder resolution is idempotent.  When a folder of exactly the
\* configured name exists, its id is used and no create call is made; a
\* folder is created only when none of that name exists, and then one; so
\* over repeated runs, whether they ended normally or not, the vault never
\* holds more than one folder of that name.
C15_FolderOnce ==
  [][ /\ pc = "folder" =>
           /\ NamedFolders(folders) # {} =>
                /\ folders' = folders
                /\ \A e \in Added : e.ev # "call:create folder"
           /\ NamedFolders(folders) = {} =>
                /\ Cardinality(folders' \ folders) <= 1
                /\ folders' \ folders = NamedFolders(folders')
                /\ (\E e \in Added : e.ev = "call:list folders" /\ e.out = "ok") =>
                     \E e \in Added : e.ev = "call:create folder"
           /\ pc' = "list" =>
                /\ NamedFolders(folders') = { f \in folders' : f.id = bwFolderId' }
                /\ Cardinality(NamedFolders(folders')) = 1
      /\ pc # "folder" => folders' = folders
      /\ Cardinality(NamedFolders(folders')) <= 1
    ]_vars

\* A second run uses the folder that the first run created.
C15_Witness ==
  /\ run = 2
  /\ pc = "list"
  /\ SyncFolder \notin folders
  /\ \E f \in folders : f.name = BW_FOLDER_NAME /\ f.id = bwFolderId
  /\ \A i \in LogIdx : log[i].ev # "call:create folder"

\* ------------------------------------------------------------------ C16
\* C16 as stated: when the operator answers push at the divergence prompt,
\* the payload of the edit call is the compression of the content the file
\* has at that moment, also when the file was changed from outside while
\* the prompt was waiting.
C16_AsStated ==
  [][ Answers("askDiverged", "u") =>
        LET e == log'[Len(log')]
        IN /\ e.ev = "call:edit item"
           /\ unJsonb64(e.doc).notes = toBase64(compress(fsys[cur.item.name].data))
    ]_vars

\* ------------------------------------------------------------------ C17
\* The token inside the quotes of the line that exports it.
ExportedToken == UnlockStdout("ok")[2].rest[2]

\* C17 as stated: a session token in the environment is reused and no
\* unlock call is made; without one an unlock call is made, and when its
\* output has the line that exports the token the run goes on to the sync
\* and the folder with that token, while output without such a line ends
\* the run with a non-zero exit code before any folder or item call.
C17_AsStated ==
  pc # "session" =>
    /\ env # "" =>
         /\ bwSession = env
         /\ \A i \in LogIdx : log[i].ev # "call:unlock"
    /\ env = "" =>
         /\ Len(log) > 0 /\ log[1].ev = "call:unlock"
         /\ \A i \in LogIdx : i > 1 => log[i].ev # "call:unlock"
         /\ log[1].out = "ok" =>
              /\ bwSession = ExportedToken
              /\ Len(log) = 1 => pc = "sync"
         /\ log[1].out = "noline" =>
              /\ Len(log) = 1
              /\ pc = "exit" /\ exitCode = 1

\* ------------------------------------------------------------------ C18
\* The step removes the item id from the folder.
Removes(id) ==
  /\ \E k \in 1 .. Len(remote) : remote[k].id = id
  /\ \A j \in 1 .. Len(remote') : remote'[j].id # id
\* The step removes the local entry n.
Unlinks(n) == Exists(fsys[n]) /\ ~ Exists(fsys'[n])

\* C18: nothing is deleted without the operator's choice.  An item leaves
\* the folder only in the step in which the operator answers d at the
\* remote-only prompt of that item; a local entry disappears only in the
\* step in which the operator answers d at the local-only prompt of that
\* name; and no local entry disappears during the remote-item phase.
C18_DeleteOnlyOnD ==
  [][ /\ \A k \in 1 .. Len(remote) :
           Removes(remote[k].id) =>
             /\ Answers("askRemoteOnly", "d")
             /\ cur.item.id = remote[k].id
             /\ cur.item.name = remote[k].name
             /\ ~ Exists(fsys[cur.item.name])
      /\ \A n \in Names :
           Unlinks(n) =>
             /\ pc = "locals"
             /\ localRemaining[idx] = n
             /\ log'[Len(log) + 1] = Ev("prompt", n, 0, NoDoc, "askLocalOnly")
             /\ log'[Len(log) + 2] = Ev("answer", n, 0, NoDoc, "d")
             /\ \A k \in 1 .. Len(items) : items[k].name # n
      /\ pc \in {"items", "confirm", "touch"} => \A n \in Names : ~ Unlinks(n)
    ]_vars

\* A run in which an item was deleted on the answer d and then a local
\* file was deleted on the answer d.
C18_Witness ==
  \E i, j \in LogIdx :
    /\ i < j
    /\ IsAnswer(i, "askRemoteOnly", "d")
    /\ log[i + 1].ev = "call:delete item" /\ log[i + 1].out = "ok"
    /\ \A k \in 1 .. Len(remote) : remote[k].id # log[i].id
    /\ IsAnswer(j, "askLocalOnly", "d")
    /\ j < Len(log) /\ log[j + 1].ev = "unlink"
    /\ isFile(start.fsys[log[j].name]) /\ ~ Exists(fsys[log[j].name])

\* ------------------------------------------------------------------ C19
\* The step writes the file n (the write of a pull).
WritesFile(n) == \E e \in Added : e.ev = "pull" /\ e.name = n

\* C19: a local entry that exists is written only in the step in which the
\* operator answers pull at the divergence prompt of that name, and nothing
\* else changes the content of a regular file; the pull without a prompt
\* writes only a name that has no local entry at that moment, in a run
\* whose candidate set was empty; also when several items of the folder
\* have the same name.
C19_NoSilentOverwrite ==
  [][ \A n \in Names :
        /\ (WritesFile(n) /\ Exists(fsys[n])) =>
             /\ Answers("askDiverged", "p")
             /\ cur.item.name = n
             /\ isFile(fsys[n])
        /\ (isFile(fsys[n]) /\ isFile(fsys'[n]) /\ fsys'[n].data # fsys[n].data) =>
             /\ Answers("askDiverged", "p")
             /\ cur.item.name = n
        /\ (WritesFile(n) /\ pc = "items") =>
             /\ ~ Exists(fsys[n])
             /\ localEmpty
             /\ items[idx].name = n
    ]_vars

\* Two items have the same name: the first was pulled without a prompt into
\* the empty directory, the second met the file of the first, the operator
\* was asked and answered pull, and the file was written again.
C19_Witness ==
  \E i, j \in LogIdx :
    /\ i < j
    /\ UnaskedPull(i)
    /\ log[j].ev = "pull" /\ log[j].name = log[i].name /\ log[j].id # log[i].id
    /\ IsAnswer(j - 1, "askDiverged", "p")

\* ------------------------------------------------------------------ C20
\* Entry i of the log is a call that creates an item.
IsCreate(i) == log[i].ev = "call:create item"

\* C20: in a run, an item is created only for a name that no item of the
\* run's listing has, and at most once per name; every item the folder has
\* gained comes from such a call; so a folder whose names were pairwise
\* different when the run started has pairwise different names throughout
\* the run and after it.
C20_CreateOnlyAbsent ==
  /\ \A i \in LogIdx :
       IsCreate(i) =>
         /\ \A k \in 1 .. Len(items) : items[k].name # log[i].name
         /\ \A j \in LogIdx : (IsCreate(j) /\ log[j].name = log[i].name) => j = i
  /\ \A k \in 1 .. Len(remote) :
       (\A m \in 1 .. Len(start.remote) : start.remote[m].id # remote[k].id) =>
         \E i \in LogIdx :
           /\ IsCreate(i) /\ log[i].out = "ok"
           /\ log[i].id = remote[k].id /\ log[i].name = remote[k].name
  /\ UniqueNames(start.remote) => UniqueNames(remote)

\* A completed run over a folder whose item is matched by a local file, in
\* which another file, of a name the listing did not have, was pushed as a
\* new item.
C20_Witness ==
  /\ pc = "done"
  /\ Len(items) > 0 /\ UniqueNames(items)
  /\ \E k \in 1 .. Len(items) : items[k].name \in Candidates(start.fsys)
  /\ Len(remote) = Len(items) + 1 /\ UniqueNames(remote)
  /\ \E i \in LogIdx : IsCreate(i) /\ log[i].out = "ok"

====
